---- MODULE Spec2Model ----
(***************************************************************************)
(* A model of src/src/events.rs: the process-wide registry EMITTERS        *)
(* (a Mutex around a map id -> EventEmitter), the thread-local             *)
(* CURRENT_EMITTER_ID, the EventEmitter handler table behind its RwLock,   *)
(* and the macros new_emitter!, use_emitter!, on!, emit!, off!, once! and  *)
(* times! as the operations threads perform, beside the methods on, emit    *)
(* and off of EventEmitter called directly.                                 *)
(*                                                                         *)
(* Locks are modelled by their holders.  std::sync::Mutex and RwLock are   *)
(* not re-entrant: an acquisition by the thread that already holds the     *)
(* lock "might panic or deadlock" (std documentation), which is modelled   *)
(* as the choice RelockOutcomes.                                           *)
(***************************************************************************)
EXTENDS Integers, Sequences, FiniteSets, TLC

\* ------------------------------------------------------------ bounds
MaxReg   == 3      \* registrations (on!/once!/times!) in a run
MaxPub   == 3      \* publishes (emit!) that reach one times! closure
MaxCount == 2      \* largest count given to times!
Width    == 2      \* bits of the AtomicUsize counter (usize, reduced)

\* ------------------------------------------------------------ universe
Threads   == {"t1", "t2"}
NoThread  == "none"
DefaultId == "default"
Ids       == {DefaultId, "A"}
Events    == {"x", "y"}

\* Outcomes of locking a std Mutex / RwLock already held by the caller.
RelockOutcomes == {"hang", "panic"}

\* What a handler body written by the client does: "ok" returns, "panic"
\* panics, and "on", "emit", "off" call that macro (a re-entrant call).
ReentBodies == {"on", "emit", "off"}

\* A body "use" calls use_emitter!(UseTarget).
UseTarget == "A"

Modulus == 2 ^ Width

\* ------------------------------------------------------------ state
VARIABLES
    EMITTERS,            \* id -> 0 (no entry) or the index of its EventEmitter
    events,              \* per EventEmitter: the table event -> list of handlers
    rwlock,              \* per EventEmitter: holders of the RwLock
    mutex,               \* holder of the EMITTERS Mutex, or NoThread
    poisoned,            \* whether the EMITTERS Mutex is poisoned
    CURRENT_EMITTER_ID,  \* thread -> its thread-local id
    handlers,            \* every closure registered so far, in registration order
    remaining,           \* per closure: the AtomicUsize of times! (0 for on!)
    pc,                  \* thread -> where it is
    frame,               \* thread -> the macro call it is executing
    published,           \* per times! closure: publishes of its event on its emitter
    runs,                \* per times! closure: executions of the client's body
    removed,             \* closures whose list HashMap::remove has dropped
    selected,            \* thread -> the id of its latest use_emitter! ("default" before)
    created              \* the ids whose entry a new_emitter! inserted

vars == <<EMITTERS, events, rwlock, mutex, poisoned, CURRENT_EMITTER_ID,
          handlers, remaining, pc, frame, published, runs, removed, selected,
          created>>

closureVars == <<handlers, remaining, published, runs>>

\* ------------------------------------------------------------ EventEmitter
\* EventEmitter::new / Default: an empty HashMap.
EmptyTable == [e \in {} |-> <<>>]

FreeLock == [readers |-> {}, writer |-> NoThread]

\* Variant of PushHandler that inserts at the front.
PushHandlerFront(list, h) == <<h>> \o list

\* Vec::push
PushHandler(list, h) == Append(list, h)

\* EventEmitter::on: lock.entry(event).or_default().push(listener)
TableOn(tbl, e, h) ==
    [k \in DOMAIN tbl \cup {e} |->
        IF k = e
        THEN PushHandler(IF e \in DOMAIN tbl THEN tbl[e] ELSE <<>>, h)
        ELSE tbl[k]]

\* Variant of TableOff that clears the whole table.
TableOffAll(tbl, e) == [k \in {} |-> <<>>]

\* Variant of TableOff that keeps the key with an empty list.
TableOffEmptying(tbl, e) == [k \in DOMAIN tbl |-> IF k = e THEN <<>> ELSE tbl[k]]

\* EventEmitter::off: lock.remove(event)
TableOff(tbl, e) == [k \in DOMAIN tbl \ {e} |-> tbl[k]]

\* The closures HashMap::remove(event) drops.
Dropped(tbl, e) == IF e \in DOMAIN tbl THEN {tbl[e][i] : i \in DOMAIN tbl[e]} ELSE {}

\* Variant of EmitLookup whose snapshot misses the last handler of the list.
EmitLookupPartial(tbl, e) ==
    IF e \notin DOMAIN tbl \/ tbl[e] = <<>>
    THEN [table |-> tbl, result |-> "NoListeners", handlers |-> <<>>]
    ELSE [table |-> tbl, result |-> "Ok",
          handlers |-> SubSeq(tbl[e], 1, Len(tbl[e]) - 1)]

\* Variant of EmitLookup that creates an empty entry for a missing key.
EmitLookupCreating(tbl, e) ==
    [table |-> [k \in DOMAIN tbl \cup {e} |->
                    IF k \in DOMAIN tbl THEN tbl[k] ELSE <<>>],
     result |-> IF e \in DOMAIN tbl /\ tbl[e] # <<>> THEN "Ok" ELSE "NoListeners",
     handlers |-> IF e \in DOMAIN tbl THEN tbl[e] ELSE <<>>]

\* EventEmitter::emit, lines 53-61: the snapshot of the handler list, or
\* NoListeners when the key is absent or the list is empty.  The table is
\* read, not written.
EmitLookup(tbl, e) ==
    IF e \notin DOMAIN tbl
    THEN [table |-> tbl, result |-> "NoListeners", handlers |-> <<>>]
    ELSE IF tbl[e] = <<>>
         THEN [table |-> tbl, result |-> "NoListeners", handlers |-> <<>>]
         ELSE [table |-> tbl, result |-> "Ok", handlers |-> tbl[e]]

\* ------------------------------------------------------------ registry
\* Variant of EntryOrInsert that always stores a new emitter.
EntryOrInsertReplacing(reg, id, fresh) == fresh

\* HashMap::entry(id).or_insert_with(EventEmitter::new): the stored emitter
\* when the id is present, a new one otherwise.
EntryOrInsert(reg, id, fresh) == IF reg[id] # 0 THEN reg[id] ELSE fresh

\* new_emitter! / the second statement of use_emitter!, under the Mutex.
GetOrCreate(id) ==
    LET fresh == Len(events) + 1
        got   == EntryOrInsert(EMITTERS, id, fresh)
    IN  /\ EMITTERS' = [EMITTERS EXCEPT ![id] = got]
        /\ events' = IF got = fresh THEN Append(events, EmptyTable) ELSE events
        /\ rwlock' = IF got = fresh THEN Append(rwlock, FreeLock) ELSE rwlock

\* Variant of ThreadLocalSet in which the id is one cell shared by all threads.
ThreadLocalSetShared(cur, t, id) == [u \in Threads |-> id]

\* CURRENT_EMITTER_ID.with(|cell| *cell.borrow_mut() = id): thread_local!
ThreadLocalSet(cur, t, id) == [cur EXCEPT ![t] = id]

\* Variant of ActiveId that ignores the selection.
ActiveIdDefault(t) == DefaultId

\* CURRENT_EMITTER_ID.with(|cell| cell.borrow().clone())
ActiveId(t) == CURRENT_EMITTER_ID[t]

\* ------------------------------------------------------------ typed dispatch
\* The argument check a typed closure performs before its body: for each
\* declared parameter in order, iter.next() must exist and downcast_ref to
\* the declared type.  Arguments beyond the declared ones are never read.
RECURSIVE CheckFrom(_, _, _)
CheckFrom(sig, args, i) ==
    IF i > Len(sig) THEN [kind |-> "ok", pos |-> 0, type |-> ""]
    ELSE IF i > Len(args) THEN [kind |-> "missing", pos |-> i, type |-> sig[i]]
    ELSE IF args[i] # sig[i] THEN [kind |-> "type", pos |-> i, type |-> sig[i]]
    ELSE CheckFrom(sig, args, i + 1)

CheckArgs(sig, args) == CheckFrom(sig, args, 1)

\* The panic message of a failed check.  on! names the event, the parameter
\* and the expected type (lines 186-200); times! panics through unwrap() and
\* expect("Неверный тип аргумента"), which name none of them (lines 366-367).
PanicMessage(macro, e, chk) ==
    IF macro = "on"
    THEN [kind |-> chk.kind, event |-> e, param |-> chk.pos, type |-> chk.type]
    ELSE [kind |-> chk.kind, event |-> "", param |-> 0, type |-> ""]

NoMessage == [kind |-> "body", event |-> "", param |-> 0, type |-> ""]
RelockMessage == [kind |-> "relock", event |-> "", param |-> 0, type |-> ""]

\* ------------------------------------------------------------ initial state
NoFrame == [id |-> DefaultId, obj |-> 0, event |-> "", args |-> <<>>,
            snapshot |-> <<>>, idx |-> 0, invoked |-> <<>>, ran |-> <<>>,
            faults |-> <<>>, result |-> "", active |-> DefaultId]

\* lazy_static EMITTERS holds "default"; every thread-local is "default".
Init ==
    /\ EMITTERS = [id \in Ids |-> IF id = DefaultId THEN 1 ELSE 0]
    /\ events = <<EmptyTable>>
    /\ rwlock = <<FreeLock>>
    /\ mutex = NoThread
    /\ poisoned = FALSE
    /\ CURRENT_EMITTER_ID = [t \in Threads |-> DefaultId]
    /\ handlers = <<>>
    /\ remaining = <<>>
    /\ pc = [t \in Threads |-> "idle"]
    /\ frame = [t \in Threads |-> NoFrame]
    /\ published = <<>>
    /\ runs = <<>>
    /\ removed = {}
    /\ selected = [t \in Threads |-> DefaultId]
    /\ created = {}

\* ------------------------------------------------------------ helpers
SetPc(t, v) == pc' = [pc EXCEPT ![t] = v]

\* A thread that panics outside a handler while it holds the EMITTERS guard
\* unwinds through the guard, which poisons the Mutex.
PanicHoldingGuard(t) ==
    /\ SetPc(t, "panicked")
    /\ poisoned' = TRUE

\* ------------------------------------------------------------ use_emitter!, new_emitter!
\* use_emitter!, first statement (lines 144-146): the thread-local is set
\* before the registry is touched.
UseEmitterSet(t, id) ==
    /\ pc[t] = "idle"
    /\ CURRENT_EMITTER_ID' = ThreadLocalSet(CURRENT_EMITTER_ID, t, id)
    /\ frame' = [frame EXCEPT ![t] = [NoFrame EXCEPT !.id = id]]
    /\ SetPc(t, "use_lock")
    /\ selected' = [selected EXCEPT ![t] = id]
    /\ UNCHANGED <<EMITTERS, events, rwlock, mutex, poisoned, closureVars, removed,
                   created>>

\* use_emitter!, second statement (lines 148-150): EMITTERS.lock().unwrap()
\* .entry(id).or_insert_with(EventEmitter::new); the guard is a temporary.
UseEmitterCreate(t) ==
    /\ pc[t] = "use_lock"
    /\ mutex = NoThread
    /\ IF poisoned
       THEN /\ SetPc(t, "panicked")
            /\ UNCHANGED <<EMITTERS, events, rwlock>>
       ELSE /\ GetOrCreate(frame[t].id)
            /\ SetPc(t, "idle")
    /\ frame' = [frame EXCEPT ![t] = NoFrame]
    /\ UNCHANGED <<mutex, poisoned, CURRENT_EMITTER_ID, closureVars, removed, selected, created>>

\* Variant of NewEmitterActive in which new_emitter! selects the id.
NewEmitterSelecting(cur, t, id) == [cur EXCEPT ![t] = id]

\* The thread-local after new_emitter!: the macro has no statement that
\* touches CURRENT_EMITTER_ID.
NewEmitterActive(cur, t, id) == cur

\* new_emitter! (lines 120-126): the same get-or-create, and nothing else.
NewEmitter(t, id) ==
    /\ pc[t] = "idle"
    /\ mutex = NoThread
    /\ IF poisoned
       THEN /\ SetPc(t, "panicked")
            /\ UNCHANGED <<EMITTERS, events, rwlock, created>>
       ELSE /\ GetOrCreate(id)
            /\ created' = IF EMITTERS[id] = 0 THEN created \cup {id} ELSE created
            /\ UNCHANGED pc
    /\ CURRENT_EMITTER_ID' = NewEmitterActive(CURRENT_EMITTER_ID, t, id)
    /\ UNCHANGED <<mutex, poisoned, closureVars, frame, removed, selected>>

\* ------------------------------------------------------------ on!, once!, times!, off!
\* The closure a registration stores: the macro that built it, the count of
\* times! (0 for on!), the declared parameter types, the client's body, and
\* where it was registered (obj is what weak_emitter refers to); active is
\* the id the registering thread had selected.
Closure(macro, count, sig, body, t, id, obj, e) ==
    [macro |-> macro, count |-> count, sig |-> sig, body |-> body,
     id |-> id, obj |-> obj, event |-> e, active |-> selected[t]]

\* emitter.on(event, handler) on the emitter found in the registry;
\* EventEmitter::on takes the write lock for the whole call.
RegisterOn(obj, c, initial) ==
    /\ rwlock[obj] = FreeLock
    /\ handlers' = Append(handlers, c)
    /\ remaining' = Append(remaining, initial)
    /\ published' = Append(published, 0)
    /\ runs' = Append(runs, 0)
    /\ events' = [events EXCEPT ![obj] = TableOn(@, c.event, Len(handlers) + 1)]

\* on! (lines 177-208): lock().unwrap_or_else(into_inner); a missing
\* emitter is skipped silently.
On(t, e, sig, body) ==
    /\ pc[t] = "idle"
    /\ Len(handlers) < MaxReg
    /\ mutex = NoThread
    /\ LET id  == ActiveId(t)
           obj == EMITTERS[id]
       IN  IF obj # 0
           THEN RegisterOn(obj, Closure("on", 0, sig, body, t, id, obj, e), 0)
           ELSE UNCHANGED <<closureVars, events>>
    /\ UNCHANGED <<EMITTERS, rwlock, mutex, poisoned, CURRENT_EMITTER_ID, pc,
                   frame, removed, selected, created>>

\* times! (lines 319-381), and once! as times!(event, 1, ..) (lines 285-293):
\* lock().unwrap(), get_mut(id).unwrap(), then emitter.on with the counting
\* closure; remaining starts at count.
Times(t, e, count, sig, body) ==
    /\ pc[t] = "idle"
    /\ Len(handlers) < MaxReg
    /\ mutex = NoThread
    /\ LET id  == ActiveId(t)
           obj == EMITTERS[id]
       IN  IF poisoned
           THEN /\ SetPc(t, "panicked")
                /\ UNCHANGED <<closureVars, events, poisoned>>
           ELSE IF obj = 0
           THEN /\ PanicHoldingGuard(t)
                /\ UNCHANGED <<closureVars, events>>
           ELSE /\ RegisterOn(obj, Closure("times", count, sig, body, t, id, obj, e),
                              count % Modulus)
                /\ UNCHANGED <<pc, poisoned>>
    /\ UNCHANGED <<EMITTERS, rwlock, mutex, CURRENT_EMITTER_ID, frame, removed,
                   selected, created>>

\* off! (lines 254-265): lock().unwrap(); emitter.off(event) when the
\* emitter exists.  EventEmitter::off takes the write lock.
Off(t, e) ==
    /\ pc[t] = "idle"
    /\ mutex = NoThread
    /\ LET id  == ActiveId(t)
           obj == EMITTERS[id]
       IN  IF poisoned
           THEN /\ SetPc(t, "panicked")
                /\ UNCHANGED <<events, removed>>
           ELSE /\ UNCHANGED pc
                /\ IF obj # 0
                   THEN /\ rwlock[obj] = FreeLock
                        /\ events' = [events EXCEPT ![obj] = TableOff(@, e)]
                        /\ removed' = removed \cup Dropped(events[obj], e)
                   ELSE UNCHANGED <<events, removed>>
    /\ UNCHANGED <<EMITTERS, rwlock, mutex, poisoned, CURRENT_EMITTER_ID,
                   closureVars, frame, selected, created>>

\* ------------------------------------------------------------ emit!
\* The closures registered so far for event e on emitter obj.
Registered(obj, e) ==
    {h \in 1..Len(handlers) : handlers[h].obj = obj /\ handlers[h].event = e}

\* The counting closures among them.
Counted(obj, e) == {h \in Registered(obj, e) : handlers[h].macro = "times"}

CountPublish(obj, e) ==
    [h \in 1..Len(handlers) |->
        IF h \in Counted(obj, e) THEN published[h] + 1 ELSE published[h]]

\* EventEmitter::emit (lines 48-61) up to the first handler: the read guard
\* is taken and lives to the end of emit, and the handler list is cloned.
\* An Err leaves emit at once (the read guard is dropped).
EmitterEmit(t, f0, obj, e) ==
    LET lk == EmitLookup(events[obj], e)
    IN  /\ rwlock[obj].writer = NoThread
        /\ \A h \in Counted(obj, e) : published[h] < MaxPub
        /\ published' = CountPublish(obj, e)
        /\ events' = [events EXCEPT ![obj] = lk.table]
        /\ IF lk.result = "NoListeners"
           THEN /\ frame' = [frame EXCEPT ![t] =
                                [f0 EXCEPT !.result = "NoListeners"]]
                /\ SetPc(t, "report")
                /\ UNCHANGED rwlock
           ELSE /\ rwlock' = [rwlock EXCEPT ![obj].readers = @ \cup {t}]
                /\ frame' = [frame EXCEPT ![t] =
                                [f0 EXCEPT !.snapshot = lk.handlers, !.idx = 1]]
                /\ SetPc(t, "dispatch")

\* emit! (lines 227-241) up to the first handler: the thread-local is read,
\* the EMITTERS guard is taken (unwrap_or_else(into_inner)) and lives to the
\* end of the macro's block, and emitter.emit is called.  An Err is
\* reported by the macro, as is a missing emitter.
EmitBegin(t, e, args) ==
    /\ pc[t] = "idle"
    /\ mutex = NoThread
    /\ mutex' = t
    /\ LET id  == ActiveId(t)
           obj == EMITTERS[id]
           f0  == [NoFrame EXCEPT !.id = id, !.obj = obj, !.event = e,
                                  !.args = args, !.active = selected[t]]
       IN  IF obj = 0
           THEN /\ frame' = [frame EXCEPT ![t] = [f0 EXCEPT !.result = "NotFound"]]
                /\ SetPc(t, "report")
                /\ UNCHANGED <<events, rwlock, published>>
           ELSE EmitterEmit(t, f0, obj, e)
    /\ UNCHANGED <<EMITTERS, poisoned, CURRENT_EMITTER_ID, handlers, remaining,
                   runs, removed, selected, created>>

\* emit! after an Err or a missing emitter (lines 234-239): eprintln!, then
\* the EMITTERS guard is dropped.  A direct caller of emit, which holds no
\* guard, receives the Err.
EmitReport(t) ==
    /\ pc[t] = "report"
    /\ mutex' = IF mutex = t THEN NoThread ELSE mutex
    /\ frame' = [frame EXCEPT ![t] = NoFrame]
    /\ SetPc(t, "idle")
    /\ UNCHANGED <<EMITTERS, events, rwlock, poisoned, CURRENT_EMITTER_ID,
                   closureVars, removed, selected, created>>

\* A lock() of the EMITTERS Mutex by thread t from inside a handler.
MutexAttempt(t) ==
    IF mutex = t THEN RelockOutcomes
    ELSE IF mutex = NoThread THEN {"acquired"} ELSE {"wait"}

\* events.write() on emitter obj by thread t from inside a handler.
WriteAttempt(obj, t) ==
    IF t \in rwlock[obj].readers \/ rwlock[obj].writer = t THEN RelockOutcomes
    ELSE IF rwlock[obj] = FreeLock THEN {"acquired"} ELSE {"wait"}

Outcome(end, ran, msg, rm) ==
    [end |-> end, ran |-> ran, msg |-> msg, removed |-> rm]

\* The client's body: it returns, panics, or calls on!/emit!/off!, whose
\* first locking step is EMITTERS.lock() (lines 179, 230, 258), or calls
\* use_emitter!, which locks EMITTERS (line 148) after it has written the
\* thread-local.
BodyOutcomes(t, body) ==
    CASE body = "ok"    -> {Outcome("return", TRUE, NoMessage, FALSE)}
      [] body = "panic" -> {Outcome("panic", TRUE, NoMessage, FALSE)}
      [] OTHER          -> {Outcome(o, TRUE, RelockMessage, FALSE) :
                               o \in MutexAttempt(t) \cap RelockOutcomes}

\* The tail of the times! closure (lines 338-344, 372-378): when the value
\* fetched was 1, upgrade the Weak, take the write lock, remove the event.
RemovalOutcomes(t, c) ==
    {IF o = "acquired" THEN Outcome("return", TRUE, NoMessage, TRUE)
                       ELSE Outcome(o, TRUE, RelockMessage, FALSE) :
        o \in WriteAttempt(c.obj, t) \ {"wait"}}

\* Variant of FetchSub that stays at 0 instead of wrapping.
FetchSubSaturating(v) == IF v = 0 THEN 0 ELSE v - 1

\* AtomicUsize::fetch_sub(1): wraps on underflow.
FetchSub(v) == (v - 1) % Modulus

\* Whether the closure goes on to its arguments and body: on! always,
\* times! when the value fetched is >= 1 (lines 334, 363).
BodyGuard(macro, count) == macro = "on" \/ count >= 1

\* The thread-local after the body has been entered: a body that calls
\* use_emitter! has executed its first statement (lines 144-146) before
\* the macro reaches EMITTERS.lock().
BodySelects(t, body, ran) ==
    IF ran /\ body = "use"
    THEN ThreadLocalSet(CURRENT_EMITTER_ID, t, UseTarget)
    ELSE CURRENT_EMITTER_ID

\* One call handler(&args) of closure h by thread t: every way it can end.
HandlerOutcomes(t, h, args) ==
    LET c   == handlers[h]
        cnt == remaining[h]
        chk == CheckArgs(c.sig, args)
    IN  IF ~BodyGuard(c.macro, cnt)
        THEN {Outcome("return", FALSE, NoMessage, FALSE)}
        ELSE IF chk.kind # "ok"
        THEN {Outcome("panic", FALSE, PanicMessage(c.macro, c.event, chk), FALSE)}
        ELSE UNION {IF b.end = "return" /\ c.macro = "times" /\ cnt = 1
                    THEN RemovalOutcomes(t, c)
                    ELSE {b} : b \in BodyOutcomes(t, c.body)}

\* Variant of CatchUnwind that lets the panic leave the loop.
CatchUnwindPropagating(end) == IF end = "return" THEN "dispatch" ELSE "stuck"

\* catch_unwind around each call (lines 64-76): a panic is logged and the
\* loop goes on; a call that never returns leaves the thread inside it.
CatchUnwind(end) == IF end = "hang" THEN "stuck" ELSE "dispatch"

\* One iteration of the loop of EventEmitter::emit (lines 63-77).
Invoke(t) ==
    /\ pc[t] = "dispatch"
    /\ frame[t].idx <= Len(frame[t].snapshot)
    /\ LET f == frame[t]
           h == f.snapshot[f.idx]
           c == handlers[h]
       IN  \E out \in HandlerOutcomes(t, h, f.args) :
             /\ remaining' = IF c.macro = "times"
                             THEN [remaining EXCEPT ![h] = FetchSub(@)]
                             ELSE remaining
             /\ runs' = IF out.ran /\ c.macro = "times"
                        THEN [runs EXCEPT ![h] = @ + 1] ELSE runs
             /\ events' = IF out.removed
                          THEN [events EXCEPT ![c.obj] = TableOff(@, c.event)]
                          ELSE events
             /\ removed' = IF out.removed
                           THEN removed \cup Dropped(events[c.obj], c.event)
                           ELSE removed
             /\ frame' = [frame EXCEPT ![t] =
                   [f EXCEPT !.invoked = Append(@, h),
                             !.ran = IF out.ran THEN Append(@, h) ELSE @,
                             !.faults = IF out.end = "panic"
                                        THEN Append(@, [h |-> h, msg |-> out.msg])
                                        ELSE @,
                             !.idx = IF CatchUnwind(out.end) = "dispatch"
                                     THEN @ + 1 ELSE @]]
             /\ SetPc(t, CatchUnwind(out.end))
             /\ CURRENT_EMITTER_ID' = BodySelects(t, c.body, out.ran)
             /\ selected' = IF out.ran /\ c.body = "use"
                             THEN [selected EXCEPT ![t] = UseTarget] ELSE selected
    /\ UNCHANGED <<EMITTERS, rwlock, mutex, poisoned, handlers, published, created>>

\* The loop is over: emit returns Ok(()) (line 78), the read guard and then
\* the EMITTERS guard of emit!, when the call came from it, are dropped.
EmitEnd(t) ==
    /\ pc[t] = "dispatch"
    /\ frame[t].idx > Len(frame[t].snapshot)
    /\ rwlock' = [rwlock EXCEPT ![frame[t].obj].readers = @ \ {t}]
    /\ mutex' = IF mutex = t THEN NoThread ELSE mutex
    /\ frame' = [frame EXCEPT ![t] = NoFrame]
    /\ SetPc(t, "idle")
    /\ UNCHANGED <<EMITTERS, events, poisoned, CURRENT_EMITTER_ID, closureVars,
                   removed, selected, created>>

\* ------------------------------------------------------------ specifications
\* The macros a thread may call next, by group.
SelectStep(t) ==
    \/ \E id \in Ids : UseEmitterSet(t, id)
    \/ UseEmitterCreate(t)
    \/ \E id \in Ids : NewEmitter(t, id)

DispatchStep(t) ==
    \/ Invoke(t)
    \/ EmitEnd(t)
    \/ EmitReport(t)

\* Clients with untyped handlers that return or panic, on every emitter.
Next ==
    \E t \in Threads :
        \/ SelectStep(t)
        \/ \E e \in Events, body \in {"ok", "panic"} : On(t, e, <<>>, body)
        \/ \E e \in Events : Off(t, e)
        \/ \E e \in Events : EmitBegin(t, e, <<>>)
        \/ DispatchStep(t)

Spec == Init /\ [][Next]_vars

\* Clients that register counting handlers (times!, once!) beside plain ones.
NextTimes ==
    \E t \in Threads :
        \/ \E e \in Events, n \in 0..MaxCount : Times(t, e, n, <<>>, "ok")
        \/ \E e \in Events : On(t, e, <<>>, "ok")
        \/ \E e \in Events : EmitBegin(t, e, <<>>)
        \/ DispatchStep(t)

SpecTimes == Init /\ [][NextTimes]_vars

\* The handlers and argument lists of clients that use typed handlers.
Sigs     == {<<>>, <<"str">>}
ArgLists == {<<>>, <<"str">>, <<"int">>, <<"str", "str">>}

NextTyped ==
    \E t \in {"t1"} :
        \/ \E sig \in Sigs : On(t, "x", sig, "ok")
        \/ \E n \in 1..MaxCount, sig \in Sigs : Times(t, "x", n, sig, "ok")
        \/ \E args \in ArgLists : EmitBegin(t, "x", args)
        \/ DispatchStep(t)

SpecTyped == Init /\ [][NextTyped]_vars

\* Clients whose handler bodies call on!, emit!, off! or use_emitter!
\* themselves.
NextReent ==
    \E t \in Threads :
        \/ \E e \in Events, body \in ReentBodies \cup {"ok", "use"} :
              On(t, e, <<>>, body)
        \/ Times(t, "x", 1, <<>>, "ok")
        \/ \E e \in Events : EmitBegin(t, e, <<>>)
        \/ DispatchStep(t)

SpecReent == Init /\ [][NextReent]_vars

\* ------------------------------------------------------------ the methods called directly
\* The id under which the registry stores emitter obj.
IdOf(obj) == CHOOSE id \in Ids : EMITTERS[id] = obj

\* EventEmitter::on (lines 42-46) called on a clone of a stored emitter: it
\* waits for the write lock; the EMITTERS Mutex is not involved.
ApiOn(t, obj, e, body) ==
    /\ pc[t] = "idle"
    /\ Len(handlers) < MaxReg
    /\ RegisterOn(obj, Closure("on", 0, <<>>, body, t, IdOf(obj), obj, e), 0)
    /\ UNCHANGED <<EMITTERS, rwlock, mutex, poisoned, CURRENT_EMITTER_ID, pc,
                   frame, removed, selected, created>>

\* EventEmitter::off (lines 81-84) called directly: it waits for the write
\* lock and removes the key.
ApiOff(t, obj, e) ==
    /\ pc[t] = "idle"
    /\ rwlock[obj] = FreeLock
    /\ events' = [events EXCEPT ![obj] = TableOff(@, e)]
    /\ removed' = removed \cup Dropped(events[obj], e)
    /\ UNCHANGED <<EMITTERS, rwlock, mutex, poisoned, CURRENT_EMITTER_ID,
                   closureVars, pc, frame, selected, created>>

\* EventEmitter::emit (lines 48-79) called directly, up to the first handler.
ApiEmit(t, obj, e) ==
    /\ pc[t] = "idle"
    /\ EmitterEmit(t, [NoFrame EXCEPT !.id = IdOf(obj), !.obj = obj, !.event = e,
                                       !.active = selected[t]], obj, e)
    /\ UNCHANGED <<EMITTERS, mutex, poisoned, CURRENT_EMITTER_ID, handlers,
                   remaining, runs, removed, selected, created>>

\* Threads that share the default emitter through clones and call its
\* methods, with plain handlers and counting ones registered by times!.
NextApi ==
    \E t \in Threads :
        \/ \E e \in Events, body \in {"ok", "panic"} : ApiOn(t, 1, e, body)
        \/ \E e \in Events : ApiOff(t, 1, e)
        \/ \E e \in Events : ApiEmit(t, 1, e)
        \/ \E n \in 1..MaxCount : Times(t, "x", n, <<>>, "ok")
        \/ DispatchStep(t)

SpecApi == Init /\ [][NextApi]_vars
\* ------------------------------------------------------------ vocabulary of the claims
\* emit is about to return Ok(()): every handler of the snapshot was called.
Returning(t) == pc[t] = "dispatch" /\ frame[t].idx > Len(frame[t].snapshot)

\* emit! is about to report result r.
Reporting(t, r) == pc[t] = "report" /\ frame[t].result = r

\* Thread t is inside the loop of emit.
InFlight(t) == pc[t] \in {"dispatch", "stuck"}

\* The closures registered for e on obj and not removed since.
Live(obj, e) == Registered(obj, e) \ removed

\* The closures registered for e while id was the registering thread's
\* selected emitter, and not removed since.
LiveById(id, e) ==
    {h \in 1..Len(handlers) :
        handlers[h].active = id /\ handlers[h].event = e /\ h \notin removed}

\* Closure ids are given in registration order: a set of them in that order.
RECURSIVE Ascending(_)
Ascending(S) ==
    IF S = {} THEN <<>>
    ELSE LET m == CHOOSE x \in S : \A y \in S : x <= y
         IN  <<m>> \o Ascending(S \ {m})

IsPrefix(a, b) == Len(a) <= Len(b) /\ a = SubSeq(b, 1, Len(a))

Range(q) == {q[i] : i \in DOMAIN q}

Faulted(t) == {frame[t].faults[i].h : i \in DOMAIN frame[t].faults}

\* ------------------------------------------------------------ C1
\* C1: when a times!(e, N, h) closure with N >= 1 is the only subscription
\* of e on its emitter, every publish of e returns; each of the first N
\* returns Ok and runs h's body once, and publish N + 1 reports NoListeners
\* and calls nothing.
C1_Claim ==
    \A h \in 1..Len(handlers) :
        LET c == handlers[h]
        IN  (c.macro = "times" /\ c.count >= 1 /\ Registered(c.obj, c.event) = {h})
            => \A t \in Threads :
                 (/\ pc[t] \in {"dispatch", "stuck", "report"}
                  /\ frame[t].obj = c.obj
                  /\ frame[t].event = c.event)
                 => /\ pc[t] # "stuck"
                    /\ published[h] <= c.count
                       => /\ pc[t] = "dispatch"
                          /\ Returning(t) => /\ frame[t].ran = <<h>>
                                              /\ runs[h] = published[h]
                    /\ published[h] = c.count + 1
                       => /\ Reporting(t, "NoListeners")
                          /\ frame[t].invoked = <<>>
                          /\ runs[h] = c.count

\* ------------------------------------------------------------ C2
\* C2: after N plain subscriptions (on!) to event e on one emitter, a
\* publish of e calls each of the N handlers exactly once, in the order in
\* which they were registered: during the loop the calls made are a prefix
\* of the registration order, and at the return they are all of it.
C2_RegistrationOrder ==
    \A t \in Threads :
        (InFlight(t) /\ \A h \in Live(frame[t].obj, frame[t].event) :
                            handlers[h].macro = "on")
        => LET expected == Ascending(Live(frame[t].obj, frame[t].event))
           IN  /\ IsPrefix(frame[t].invoked, expected)
               /\ Returning(t) => frame[t].invoked = expected

\* A publish that has called three handlers and is about to return.
C2_Witness ==
    \E t \in Threads : Returning(t) /\ Len(frame[t].invoked) >= 3

\* ------------------------------------------------------------ C3
\* C3: a publish of an event that has no registered handler on the target
\* emitter (never subscribed, or removed) reports NoListeners, calls no
\* handler, and leaves every handler table and counter as it was.
C3_Step ==
    \A t \in Threads :
        (/\ pc[t] = "idle"
         /\ pc'[t] \in {"report", "dispatch"}
         /\ frame'[t].obj # 0
         /\ Live(frame'[t].obj, frame'[t].event) = {})
        => /\ pc'[t] = "report"
           /\ frame'[t].result = "NoListeners"
           /\ frame'[t].invoked = <<>>
           /\ events' = events
           /\ remaining' = remaining
           /\ runs' = runs

\* C3: every publish of an event with no registered handler reports
\* NoListeners, calls nothing and changes no table or counter.
C3_NoListeners == [][C3_Step]_vars

\* NoListeners for an event whose handlers were removed by off!.
C3_Witness ==
    \E t \in Threads :
        /\ Reporting(t, "NoListeners")
        /\ Registered(frame[t].obj, frame[t].event) # {}
        /\ frame[t].event \notin DOMAIN events[frame[t].obj]

\* ------------------------------------------------------------ C4
\* C4: a handler that panics during a publish does not end the loop: the
\* handlers after it are still called, once each and in registration
\* order, emit returns Ok(()) after the last one, and a later publish of
\* the event again calls every handler still registered.
C4_Inv ==
    \A t \in Threads :
        (InFlight(t) /\ frame[t].faults # <<>>)
        => LET expected == Ascending(Live(frame[t].obj, frame[t].event))
           IN  /\ pc[t] = "dispatch"
               /\ Len(frame[t].invoked) = frame[t].idx - 1
               /\ IsPrefix(frame[t].invoked, expected)
               /\ Returning(t) => frame[t].invoked = expected

\* The step in which a handler panics leaves the handler tables, the
\* registry and the locks as they were, so a later publish of the event
\* meets the same handlers.
C4_Step ==
    \A t \in Threads :
        Len(frame'[t].faults) > Len(frame[t].faults)
        => /\ pc'[t] = "dispatch"
           /\ events' = events
           /\ EMITTERS' = EMITTERS
           /\ rwlock' = rwlock
           /\ mutex' = mutex
           /\ poisoned' = poisoned

\* C4: a panic in a handler neither ends the publish nor changes what a
\* later publish of the event will call.
C4_FaultIsolation == []C4_Inv /\ [][C4_Step]_vars

\* A publish about to return Ok in which a handler panicked and a handler
\* registered after it ran its body.
C4_Witness ==
    \E t \in Threads :
        /\ Returning(t)
        /\ \E i, j \in DOMAIN frame[t].invoked :
              /\ i < j
              /\ frame[t].invoked[i] \in Faulted(t)
              /\ frame[t].invoked[j] \in Range(frame[t].ran) \ Faulted(t)

\* ------------------------------------------------------------ C5
\* C5: a handler body that calls on!, emit! or off! on the same emitter
\* during a publish completes that call, and the publish goes on: the
\* thread is never left inside the call, and the call does not panic.
C5_Claim ==
    \A t \in Threads :
        \A i \in DOMAIN frame[t].invoked :
            handlers[frame[t].invoked[i]].body \in ReentBodies
            => /\ ~(pc[t] = "stuck" /\ i = frame[t].idx)
               /\ frame[t].invoked[i] \notin Faulted(t)

\* ------------------------------------------------------------ C6
\* C6: when an argument published does not have the type an on! handler
\* declared for its position, the failure names the event, the parameter
\* and the expected type, and the publish does not complete with Ok.
C6_Claim ==
    \A t \in Threads :
        \A k \in DOMAIN frame[t].faults :
            LET m == frame[t].faults[k].msg
                c == handlers[frame[t].faults[k].h]
            IN  (m.kind = "type" /\ c.macro = "on")
                => /\ m.event = frame[t].event
                   /\ m.param \in DOMAIN c.sig
                   /\ m.type = c.sig[m.param]
                   /\ ~Returning(t)

\* ------------------------------------------------------------ C7
\* C7: a handler that declares typed parameters and is called with a
\* number of arguments different from the number it declared, fewer or
\* more, fails and does not run its body; the body runs only when the
\* count matches and every argument has the declared type.
C7_Claim ==
    \A t \in Threads :
        \A i \in DOMAIN frame[t].invoked :
            LET h == frame[t].invoked[i]
                c == handlers[h]
            IN  c.sig # <<>>
                => /\ Len(frame[t].args) # Len(c.sig)
                      => h \notin Range(frame[t].ran) /\ h \in Faulted(t)
                   /\ h \in Range(frame[t].ran)
                      => /\ Len(frame[t].args) = Len(c.sig)
                         /\ CheckArgs(c.sig, frame[t].args).kind = "ok"

\* ------------------------------------------------------------ C8
\* C8: a publish made while emitter B is the caller's selected emitter
\* calls only handlers registered while B was selected, and off! under B
\* removes nothing from another emitter's table.
C8_Inv ==
    \A t \in Threads :
        InFlight(t) =>
            \A i \in DOMAIN frame[t].invoked :
                handlers[frame[t].invoked[i]].active = frame[t].active

C8_OffStep ==
    \A t \in Threads, e \in Events :
        Off(t, e) =>
            /\ \A o \in DOMAIN events :
                  o # EMITTERS[selected[t]] => events'[o] = events[o]
            /\ \A h \in removed' \ removed : handlers[h].active = selected[t]

\* C8: a publish under emitter B calls only handlers registered under B,
\* and off! under B changes only B's table.
C8_EmitterIsolation == []C8_Inv /\ [][C8_OffStep]_vars

\* NoListeners under one emitter while another emitter holds a live handler
\* for the same event.
C8_Witness ==
    \E t \in Threads :
        /\ Reporting(t, "NoListeners")
        /\ \E h \in 1..Len(handlers) :
              /\ h \notin removed
              /\ handlers[h].event = frame[t].event
              /\ handlers[h].active # frame[t].active

\* ------------------------------------------------------------ C9
\* C9: a thread's active emitter id is "default" until that thread calls
\* use_emitter!, and afterwards the id it selected last; only the thread's
\* own use_emitter! changes it, and its emit! targets it.
C9_Inv ==
    \A t \in Threads :
        /\ CURRENT_EMITTER_ID[t] = selected[t]
        /\ pc[t] \in {"dispatch", "stuck", "report"} => frame[t].id = selected[t]

C9_Step ==
    \A t \in Threads :
        CURRENT_EMITTER_ID'[t] # CURRENT_EMITTER_ID[t]
        => pc[t] = "idle" /\ pc'[t] = "use_lock"

\* C9: each thread's active id is the one that thread selected last
\* ("default" before any selection), and no other thread changes it.
C9_ThreadLocal == []C9_Inv /\ [][C9_Step]_vars

\* One thread has selected another emitter while a second thread, which
\* never selected, is publishing on "default".
C9_Witness ==
    \E t, u \in Threads :
        /\ t # u
        /\ selected[t] # DefaultId
        /\ pc[t] = "idle"
        /\ pc[u] = "dispatch"
        /\ frame[u].id = DefaultId
        /\ CURRENT_EMITTER_ID[u] = DefaultId

\* ------------------------------------------------------------ C10
\* C10: get-or-create keeps exactly one emitter per id: a use_emitter! or
\* new_emitter! for an id that exists neither replaces the stored emitter
\* nor touches a handler table, so a publish under an id calls every live
\* handler registered under that id.
C10_Inv ==
    /\ \A a, b \in Ids : (EMITTERS[a] # 0 /\ EMITTERS[a] = EMITTERS[b]) => a = b
    /\ Len(events) = Cardinality({id \in Ids : EMITTERS[id] # 0})
    /\ \A t \in Threads :
          (Returning(t) \/ Reporting(t, "NoListeners"))
          => LiveById(frame[t].active, frame[t].event) \subseteq Range(frame[t].invoked)

C10_Step ==
    /\ \A id \in Ids : EMITTERS[id] # 0 => EMITTERS'[id] = EMITTERS[id]
    /\ \A t \in Threads :
          (UseEmitterCreate(t) \/ \E id \in Ids : NewEmitter(t, id))
          => \A o \in DOMAIN events : events'[o] = events[o]

\* C10: one emitter per id, never replaced or cleared by a later
\* use_emitter! or new_emitter!, under any interleaving of the threads.
C10_GetOrCreate == []C10_Inv /\ [][C10_Step]_vars

\* Both threads have selected the same non-default emitter, and a publish
\* under it has called the handlers registered there.
C10_Witness ==
    \E t, u \in Threads :
        /\ t # u
        /\ selected[t] # DefaultId
        /\ selected[u] = selected[t]
        /\ pc[u] = "idle"
        /\ Returning(t)
        /\ frame[t].active = selected[t]
        /\ Len(frame[t].invoked) >= 2

\* ------------------------------------------------------------ C11
\* The step off!(e) of thread t on its active emitter: it does not fail, the
\* key e is gone afterwards so that a publish of e finds NoListeners, every
\* other list of that emitter and every other emitter is as before, no
\* closure or counter changes, and on an event without handlers the whole
\* state is left as it was.
C11_Step ==
    \A t \in Threads, e \in Events :
        Off(t, e) =>
            LET obj == EMITTERS[ActiveId(t)]
            IN  /\ pc'[t] = "idle"
                /\ obj # 0
                /\ e \notin DOMAIN events'[obj]
                /\ EmitLookup(events'[obj], e).result = "NoListeners"
                /\ \A k \in Events \ {e} :
                      /\ k \in DOMAIN events'[obj] <=> k \in DOMAIN events[obj]
                      /\ k \in DOMAIN events[obj] => events'[obj][k] = events[obj][k]
                /\ \A o \in DOMAIN events : o # obj => events'[o] = events[o]
                /\ handlers' = handlers /\ remaining' = remaining
                /\ e \notin DOMAIN events[obj]
                   => events' = events /\ removed' = removed

\* C11: off!(e) removes the whole handler list of e on the active emitter,
\* so that the next publish of e reports NoListeners; it changes no other
\* event and no other emitter; on an event without handlers it changes
\* nothing and does not fail.
C11_Off == [][C11_Step]_vars

\* off! has removed a list, another event of the same emitter still has its
\* handlers, and a publish of the removed event is reporting NoListeners.
C11_Witness ==
    \E h \in removed, t \in Threads :
        /\ Reporting(t, "NoListeners")
        /\ frame[t].obj = handlers[h].obj
        /\ frame[t].event = handlers[h].event
        /\ \E g \in 1..Len(handlers) :
              /\ g \notin removed
              /\ handlers[g].obj = handlers[h].obj
              /\ handlers[g].event # handlers[h].event

\* ------------------------------------------------------------ C12
\* Every registration and every publish went to the emitter stored under the
\* id its thread had selected last.
C12_Inv ==
    /\ \A h \in 1..Len(handlers) : handlers[h].obj = EMITTERS[handlers[h].active]
    /\ \A t \in Threads :
          pc[t] \in {"dispatch", "stuck", "report"}
          => frame[t].id = selected[t] /\ frame[t].obj = EMITTERS[selected[t]]

\* new_emitter!(id) leaves every thread's active id as it was, and the
\* emitter it names too (for a thread that is not between the two
\* statements of its own use_emitter!); the first statement of
\* use_emitter!(id) makes id the caller's active id.
C12_Step ==
    \A t \in Threads, id \in Ids :
        /\ NewEmitter(t, id)
           => /\ CURRENT_EMITTER_ID' = CURRENT_EMITTER_ID
              /\ pc'[t] = "idle"
              /\ \A u \in Threads :
                    pc[u] # "use_lock"
                    => EMITTERS'[ActiveId(u)] = EMITTERS[ActiveId(u)]
        /\ UseEmitterSet(t, id) => CURRENT_EMITTER_ID'[t] = id

\* C12: new_emitter!(id) does not change the caller's active emitter, whose
\* on!/emit!/off! calls go on targeting the emitter selected before, unlike
\* use_emitter!(id), after which they target id.
C12_NewEmitterKeepsActive == []C12_Inv /\ [][C12_Step]_vars

\* new_emitter! has created "A", and a thread whose selection is still
\* "default" is publishing on the default emitter.
C12_Witness ==
    \E t \in Threads :
        /\ "A" \in created
        /\ selected[t] = DefaultId
        /\ pc[t] = "dispatch"
        /\ frame[t].obj = EMITTERS[DefaultId]
        /\ frame[t].invoked # <<>>

\* ------------------------------------------------------------ C13
\* C13: a times!(e, 0, h) closure skips h's body on the first publish of e
\* and runs it on each later one up to publish 2^Width - 1: the counter
\* wraps from 0 to 2^Width - 1.  None of those calls fails, hangs or
\* removes the event, and when h is the only counting closure of e those
\* publishes return Ok.
C13_ZeroCount ==
    \A t \in Threads :
        InFlight(t) =>
            \A i \in DOMAIN frame[t].invoked :
                LET h == frame[t].invoked[i]
                    c == handlers[h]
                    k == published[h]
                IN  (c.macro = "times" /\ c.count = 0 /\ k <= Modulus - 1)
                    => /\ h \in Range(frame[t].ran) <=> k >= 2
                       /\ runs[h] = k - 1
                       /\ remaining[h] = (Modulus - k) % Modulus
                       /\ h \notin Faulted(t)
                       /\ h \notin removed
                       /\ c.event \in DOMAIN events[c.obj]
                       /\ ~(pc[t] = "stuck" /\ i = Len(frame[t].invoked))
                       /\ Counted(c.obj, c.event) = {h} => pc[t] = "dispatch"

\* The third publish of an event with a times!(e, 0, h) closure is about to
\* return Ok: the body was skipped once and has run twice.
C13_Witness ==
    \E t \in Threads :
        /\ Returning(t)
        /\ \E h \in Range(frame[t].ran) :
              /\ handlers[h].macro = "times"
              /\ handlers[h].count = 0
              /\ published[h] = 3
              /\ runs[h] = 2

\* ------------------------------------------------------------ C14
\* C14: the body of a times!(e, N, h) closure with N >= 1 is executed at
\* most N times, and never again once the call that fetched the value 1
\* has taken place (from then on at least N publishes have reached it).
C14_Claim ==
    \A h \in 1..Len(handlers) :
        (handlers[h].macro = "times" /\ handlers[h].count >= 1)
        => runs[h] <= handlers[h].count

\* ------------------------------------------------------------ C15
\* C15: the call of a times! closure that fetches the value 1 returns, and
\* after it the event has no handler list on the owning emitter: plain and
\* counting handlers of the event are all removed.
C15_Claim ==
    \A t \in Threads :
        InFlight(t) =>
            \A i \in DOMAIN frame[t].invoked :
                LET h == frame[t].invoked[i]
                    c == handlers[h]
                IN  (c.macro = "times" /\ c.count >= 1 /\ published[h] = c.count)
                    => /\ ~(pc[t] = "stuck" /\ i = Len(frame[t].invoked))
                       /\ h \notin Faulted(t)
                       /\ c.event \notin DOMAIN events[c.obj]
                       /\ Registered(c.obj, c.event) \subseteq removed

\* ------------------------------------------------------------ C16
\* C16: a times!(e, N, h) closure with N >= 1 that shares its event with
\* other plain or counting closures is called by every publish of e, no
\* such publish is left inside a handler, h's body has run min(k, N) times
\* when publish k returns, and h is not removed before its N-th run.
C16_Claim ==
    \A h \in 1..Len(handlers) :
        LET c == handlers[h]
        IN  (c.macro = "times" /\ c.count >= 1 /\ Registered(c.obj, c.event) # {h})
            => /\ h \in removed => runs[h] >= c.count
               /\ \A t \in Threads :
                     (InFlight(t) /\ h \in Range(frame[t].snapshot))
                     => /\ pc[t] = "dispatch"
                        /\ Returning(t)
                           => runs[h] = IF published[h] <= c.count
                                        THEN published[h] ELSE c.count

\* ------------------------------------------------------------ C17
\* What a publish has called so far is a prefix of its snapshot, and all
\* of it when emit returns.
C17_Inv ==
    \A t \in Threads :
        InFlight(t)
        => /\ IsPrefix(frame[t].invoked, frame[t].snapshot)
           /\ Returning(t) => frame[t].invoked = frame[t].snapshot

\* The snapshot is the whole handler list of the event at the step in which
\* the publish starts, and no step of any thread changes it afterwards.
C17_Step ==
    \A t \in Threads :
        /\ (pc[t] = "idle" /\ pc'[t] = "dispatch")
           => LET o == frame'[t].obj
                  e == frame'[t].event
              IN  /\ e \in DOMAIN events[o]
                  /\ frame'[t].snapshot = events[o][e]
                  /\ events'[o] = events[o]
        /\ (InFlight(t) /\ pc'[t] \in {"dispatch", "stuck"})
           => /\ frame'[t].snapshot = frame[t].snapshot
              /\ IsPrefix(frame[t].invoked, frame'[t].invoked)

\* C17: under any interleaving of on, off, emit and the removal by a
\* counting closure on one emitter, a publish calls the handlers of one
\* snapshot, the event's list at the instant the publish read it: nothing
\* registered or removed later changes what it calls, and it never sees a
\* partly updated list.
C17_Snapshot == []C17_Inv /\ [][C17_Step]_vars

\* Two threads are publishing the same event of the same emitter at once;
\* one has called its two handlers, the other has not finished.
C17_Witness ==
    \E t, u \in Threads :
        /\ t # u
        /\ Returning(t)
        /\ Len(frame[t].invoked) >= 2
        /\ pc[u] = "dispatch"
        /\ frame[u].obj = frame[t].obj
        /\ frame[u].event = frame[t].event
        /\ Len(frame[u].invoked) < Len(frame[u].snapshot)

\* ------------------------------------------------------------ C18
\* C18: while a thread is inside the handler loop of an emit!, it does not
\* hold the EMITTERS Mutex, and another thread that is idle can carry out
\* an off! (as it can an on! or an emit!) on an existing emitter without
\* waiting for that publish to end.
C18_Claim ==
    \A t \in Threads :
        (pc[t] = "dispatch" /\ frame[t].idx <= Len(frame[t].snapshot))
        => /\ mutex # t
           /\ \A u \in Threads \ {t} :
                 pc[u] = "idle" => \A e \in Events : ENABLED Off(u, e)

\* ------------------------------------------------------------ C19
\* C19: the registry always holds "default"; an idle thread's active id is
\* a key of the registry, so the macro it calls next finds its emitter:
\* emit! never reports a missing emitter and no macro panics on one.
C19_Claim ==
    /\ EMITTERS[DefaultId] # 0
    /\ \A t \in Threads :
          /\ pc[t] = "idle" => EMITTERS[ActiveId(t)] # 0
          /\ ~Reporting(t, "NotFound")
          /\ pc[t] # "panicked"

\* ------------------------------------------------------------ C20
\* A key of a handler table never maps to an empty list: it is present
\* exactly when a handler registered for it has not been removed, and its
\* list is those handlers in registration order.
C20_Inv ==
    \A obj \in DOMAIN events :
        \A e \in Events :
            /\ e \in DOMAIN events[obj] <=> Live(obj, e) # {}
            /\ e \in DOMAIN events[obj]
               => /\ events[obj][e] # <<>>
                  /\ events[obj][e] = Ascending(Live(obj, e))

\* A publish ends with NoListeners exactly when the key is absent.
C20_Step ==
    \A t \in Threads :
        (pc[t] = "idle" /\ pc'[t] \in {"report", "dispatch"} /\ frame'[t].obj # 0)
        => (frame'[t].result = "NoListeners"
            <=> frame'[t].event \notin DOMAIN events[frame'[t].obj])

\* C20: no event name maps to an empty handler list in any reachable table:
\* on creates the key with its first handler and off removes the key, so
\* emit returns NoListeners exactly when the key is absent, and its check
\* for an empty list never decides.
C20_NoEmptyList == []C20_Inv /\ [][C20_Step]_vars

\* A publish is reporting NoListeners for an event whose key off has
\* removed, while another event of the same emitter has two handlers.
C20_Witness ==
    \E t \in Threads :
        /\ Reporting(t, "NoListeners")
        /\ Registered(frame[t].obj, frame[t].event) # {}
        /\ Registered(frame[t].obj, frame[t].event) \subseteq removed
        /\ \E e \in DOMAIN events[frame[t].obj] : Len(events[frame[t].obj][e]) >= 2
====
